---------------------------- MODULE Spec2Model ----------------------------
(***************************************************************************)
(* AgentWealth: the Angular front end's AgentService (both revisions), the *)
(* AgentDashboard component and the LearningPage component, modelled as    *)
(* state machines over the HTTP requests they issue to the four agents.    *)
(*                                                                         *)
(* Three specifications share the variables:                               *)
(*   SpecService   - AgentService called directly by a subscriber          *)
(*   SpecDashboard - AgentDashboard (initializeDashboard, handoff chain,   *)
(*                   loaders, completeModule, testUserHistory, ...)        *)
(*   SpecLearning  - LearningPage (loadLearningContent, nextStep, quiz)    *)
(***************************************************************************)
EXTENDS Integers, Sequences, FiniteSets, TLC

(***************************************************************************)
(* Bounds                                                                  *)
(***************************************************************************)
\* number of AgentService invocations in one behaviour of SpecService
MaxCalls == 1

\* operations of a component started in one behaviour
MaxOps == 2

\* an operation of the dashboard starts only while at most this many requests
\* of earlier operations are still unanswered
MaxBackground == 0

\* the module cards on which "complete" is clicked: the first ones of the list
MaxModuleChoice == 2

\* nextStep is refused only while the chat holds fewer messages than this
MaxChat == 2

\* nextStep proceeds only from a module below this one
MaxModule == 2

\* feedback timers of selectAnswer armed and not yet fired
MaxTimers == 1

Min(a, b) == IF a < b THEN a ELSE b

(***************************************************************************)
(* Strings.  A user id is a sequence of characters so that substring(0, 8) *)
(* can be computed.  A text is a record: the literal (or a label for it),  *)
(* its length, the searched needles it contains, and the JSON object       *)
(* embedded in it (NoJson when there is none).                             *)
(***************************************************************************)
UserIds == { <<"u", "7">>,
             <<"a", "u", "t", "h", "0", "|", "6", "5", "f", "2">> }

Undefined == <<>>

\* the absence of tool data in a reply
NoFields == [kind |-> "none"]

NoJson == [status |-> "", data |-> NoFields]

\* a text in which the scrapers find the needles ph and capture the values f
TxtF(s, n, ph, f) == [str |-> s, len |-> n, phrases |-> ph, json |-> NoJson, facts |-> f]

Txt(s, n, ph) == TxtF(s, n, ph, NoFields)

EmptyText == Txt("", 0, {})

\* JavaScript truthiness of a string: the empty string is falsy
Truthy(t) == t.len > 0

\* String.prototype.includes
Includes(t, needle) == needle \in t.phrases

(***************************************************************************)
(* environment.agentServices                                               *)
(***************************************************************************)
AgentTypes == {"assessmentAgent", "planningAgent", "progressAgent",
               "contentDeliveryAgent"}

AgentUrl(agentType) ==
  CASE agentType = "assessmentAgent"      -> "http://localhost:5001/assessment"
    [] agentType = "planningAgent"        -> "http://localhost:5001/planning"
    [] agentType = "progressAgent"        -> "http://localhost:5001/progress"
    [] agentType = "contentDeliveryAgent" -> "http://localhost:5001/content"
    [] OTHER                              -> "undefined"

\* agentType.replace('Agent', '_agent'): the first occurrence only
AppName(agentType) ==
  CASE agentType = "assessmentAgent"      -> "assessment_agent"
    [] agentType = "planningAgent"        -> "planning_agent"
    [] agentType = "progressAgent"        -> "progress_agent"
    [] agentType = "contentDeliveryAgent" -> "contentDelivery_agent"
    [] OTHER                              -> agentType

\* "session_" + userId.substring(0, 8)
SessionId(userId) == <<"session_">> \o SubSeq(userId, 1, Min(8, Len(userId)))

(***************************************************************************)
(* What HttpClient.post delivers: a response body (payload) or a failure.  *)
(* A payload is the parsed JSON body; isNull models a 2xx reply whose body *)
(* is null.                                                                *)
(***************************************************************************)
Payload(resp, text, status, fields) ==
  [isNull |-> FALSE, response |-> resp, text |-> text, status |-> status,
   fields |-> fields]

NullPayload == [isNull |-> TRUE, response |-> EmptyText, text |-> EmptyText,
                status |-> "", fields |-> NoFields]

\* of({response: <text>, status: 'error'}): no data property (falsy, as null is)
ErrorResponse(t) == [response |-> t, status |-> "error", data |-> NullPayload]

HttpPending   == [ok |-> FALSE, payload |-> NullPayload, error |-> "pending"]
HttpOk(p)     == [ok |-> TRUE, payload |-> p, error |-> "none"]
HttpFailed(e) == [ok |-> FALSE, payload |-> NullPayload, error |-> e]

(***************************************************************************)
(* AgentService, revision "frontend" (src/frontend) and revision "dl"      *)
(* (src/digital-literacy-app).  A send operation yields either the POST it *)
(* issues (url, body, and the error text of its catchError) or, for the    *)
(* default case of dl's sendToAgent, an immediate error response.          *)
(***************************************************************************)
Variants == {"frontend", "dl"}

Ops == {"sendToAssessmentAgent", "sendToPlanningAgent", "sendToProgressAgent",
        "sendToContentAgent", "sendToAgent"}

SorryText         == Txt("Sorry, I encountered an error. Please try again.", 48, {"error"})
UnavailableText   == Txt("Agent is currently unavailable.", 31, {"unavailable"})
PlanningDownText  == Txt("Planning agent is currently unavailable.", 40, {"unavailable"})
ProgressDownText  == Txt("Progress tracking is currently unavailable.", 43, {"unavailable"})
ContentDownText   == Txt("Content delivery is currently unavailable.", 42, {"unavailable"})
InvalidAgentText  == Txt("Invalid agent type specified.", 29, {})


\* the ADKRequest built by the frontend revision's sendToAgent
ADKBody(agentType, userId, message) ==
  [appName    |-> AppName(agentType),
   userId     |-> userId,
   sessionId  |-> SessionId(userId),
   newMessage |-> [text |-> message],
   contents   |-> << [parts |-> << [text |-> message] >>, role |-> "user"] >>]

\* the AssessmentRequest built by the dl revision
AssessmentRequestBody(userId, message) ==
  [message |-> message, user_id |-> userId]

Post(agentType, body, errText, mapped) ==
  [post |-> TRUE, agent |-> agentType, url |-> AgentUrl(agentType),
   path |-> "/run", body |-> body, errText |-> errText, mapped |-> mapped]

Immediate(resp) == [post |-> FALSE, resp |-> resp]

FrontendSendToAgent(agentType, userId, message) ==
  Post(agentType, ADKBody(agentType, userId, message), UnavailableText, TRUE)

FrontendSendToAssessmentAgent(userId, message) ==
  Post("assessmentAgent", [newMessage |-> [text |-> message]], SorryText, TRUE)

DlSend(agentType, userId, message, errText) ==
  Post(agentType, AssessmentRequestBody(userId, message), errText, FALSE)

DlSendToAgent(agentType, userId, message) ==
  CASE agentType = "assessmentAgent"      -> DlSend(agentType, userId, message, SorryText)
    [] agentType = "planningAgent"        -> DlSend(agentType, userId, message, PlanningDownText)
    [] agentType = "progressAgent"        -> DlSend(agentType, userId, message, ProgressDownText)
    [] agentType = "contentDeliveryAgent" -> DlSend(agentType, userId, message, ContentDownText)
    [] OTHER                              -> Immediate(ErrorResponse(InvalidAgentText))

\* op is the method called; agentType is the argument of sendToAgent
ServiceSend(variant, op, agentType, userId, message) ==
  IF variant = "frontend"
  THEN CASE op = "sendToAssessmentAgent" -> FrontendSendToAssessmentAgent(userId, message)
         [] op = "sendToPlanningAgent"   -> FrontendSendToAgent("planningAgent", userId, message)
         [] op = "sendToProgressAgent"   -> FrontendSendToAgent("progressAgent", userId, message)
         [] op = "sendToContentAgent"    -> FrontendSendToAgent("contentDeliveryAgent", userId, message)
         [] OTHER                        -> FrontendSendToAgent(agentType, userId, message)
  ELSE CASE op = "sendToAssessmentAgent" -> DlSendToAgent("assessmentAgent", userId, message)
         [] op = "sendToPlanningAgent"   -> DlSendToAgent("planningAgent", userId, message)
         [] op = "sendToProgressAgent"   -> DlSendToAgent("progressAgent", userId, message)
         [] op = "sendToContentAgent"    -> DlSendToAgent("contentDeliveryAgent", userId, message)
         [] OTHER                        -> DlSendToAgent(agentType, userId, message)

\* the ways a POST fails: no connection, 5xx, 404, CORS rejection
HttpErrors == {"status 0: unknown error", "status 500", "status 404"}

\* JSON.stringify(response): the body itself as text
Stringify(p) ==
  [str |-> "JSON.stringify(response)", len |-> 2, phrases |-> {},
   json |-> [status |-> p.status, data |-> p.fields], facts |-> NoFields]

Next1(v)  == [kind |-> "next", value |-> v]
ErrorN(e) == [kind |-> "error", value |-> e]
Complete  == [kind |-> "complete", value |-> "none"]

\* map(response => ({response: response.response || response.text ||
\*                   JSON.stringify(response), status: 'success', data: response}))
MapResponse(p) ==
  [response |-> IF Truthy(p.response) THEN p.response
                ELSE IF Truthy(p.text) THEN p.text
                ELSE Stringify(p),
   status   |-> "success",
   data     |-> p]

\* a catchError that logs and rethrows instead of substituting a value
CatchErrorRethrow(req, error) == << ErrorN(error) >>

\* catchError(error => of({response: <fixed text>, status: 'error'}))
CatchError(req, error) == << Next1(ErrorResponse(req.errText)), Complete >>

\* The notifications the returned observable delivers for one HTTP outcome.
\* frontend: http.post(...).pipe(map(...), catchError(...)); a TypeError thrown
\* inside map (null body) is routed to catchError as well.
\* dl: http.post<AgentResponse>(...).pipe(catchError(...)): the body is
\* emitted as it came.
Pipe(req, outcome) ==
  IF outcome.ok
  THEN IF req.mapped
       THEN IF outcome.payload.isNull
            THEN CatchError(req, "TypeError")
            ELSE << Next1(MapResponse(outcome.payload)), Complete >>
       ELSE << Next1([response |-> outcome.payload.response,
                      status   |-> outcome.payload.status,
                      data     |-> outcome.payload]), Complete >>
  ELSE CatchError(req, outcome.error)

\* new Promise((resolve, reject) => obs.subscribe({next: resolve, error: reject}))
Settle(notifs) ==
  IF notifs = <<>> THEN [state |-> "pending", value |-> "none"]
  ELSE IF notifs[1].kind = "next"
       THEN [state |-> "resolved", value |-> notifs[1].value]
       ELSE IF notifs[1].kind = "error"
            THEN [state |-> "rejected", value |-> notifs[1].value]
            ELSE [state |-> "pending", value |-> "none"]

(***************************************************************************)
(* State                                                                   *)
(***************************************************************************)
VARIABLES
  posts,      \* the HTTP POSTs issued, in order: owner, tag, request, whether
              \* still unanswered (pending), and the HTTP outcome
  calls,      \* SpecService: the invocations of the service, in order
  notifs,     \* SpecService: per invocation, the notifications delivered
  userId,     \* the userId signal of the component
  dashboardStats, learningModules, planningInsights, agents, learningPlan,
              \* AgentDashboard: the data signals
  isLoading, hasError, isInitialized,
              \* AgentDashboard: the state signals
  subscriptions,
              \* AgentDashboard: interval subscriptions made by startPeriodicUpdates
  ops,        \* operations of the component started so far
  run,        \* the operation of the component in progress: name, await
              \* point (pc), step of the chain
  assessmentIncomplete, currentModule, currentStep, quizQuestions,
  currentQuizIndex, selectedAnswerIndex, quizCompleted, showQuizFeedback,
  currentModuleNumber, currentStepNumber,
              \* LearningPage: its signals (userId and isLoading are above)
  isAssessmentComplete,
              \* LearningPage: the constant of that name in
              \* loadLearningContent, "unset" until checkAssessmentStatus returns
  chatMessages,
              \* LearningPage: the chat signal, the texts only
  timers      \* LearningPage: the feedback timeouts of selectAnswer not yet fired

dashVars == <<userId, dashboardStats, learningModules, planningInsights, agents,
              learningPlan, isLoading, hasError, isInitialized, subscriptions, ops, run>>

learnVars == <<assessmentIncomplete, currentModule, currentStep, quizQuestions,
               currentQuizIndex, selectedAnswerIndex, quizCompleted,
               showQuizFeedback, currentModuleNumber, currentStepNumber,
               isAssessmentComplete, chatMessages, timers>>

vars == <<posts, calls, notifs, dashVars, learnVars>>

\* indices of the requests in flight
inflight == { i \in 1..Len(posts) : posts[i].pending }

NewPost(owner, tag, req) ==
  [owner |-> owner, tag |-> tag, req |-> req, pending |-> TRUE,
   outcome |-> HttpPending]

Answered(i, outcome) ==
  [posts EXCEPT ![i].pending = FALSE, ![i].outcome = outcome]

(***************************************************************************)
(* SpecService: a subscriber calls a send operation; the HTTP layer        *)
(* answers each request with a body or a failure.                          *)
(***************************************************************************)
ServiceMessages == {"hello", "what is an ETF?"}

ServicePayloads ==
  { Payload(Txt("Welcome to your assessment", 26, {}), EmptyText, "success", NoFields),
    Payload(EmptyText, Txt("text only", 9, {}), "", NoFields),
    Payload(EmptyText, EmptyText, "", NoFields),
    NullPayload }

\* LearningPage: the values its signals are constructed with
NullModule == [isNull |-> TRUE, title |-> "", moduleNumber |-> 0, topic |-> "",
               difficulty |-> ""]

NullStep == [isNull |-> TRUE, title |-> "", stepNumber |-> 0, totalSteps |-> 0]

NoLearningPage ==
  /\ assessmentIncomplete = TRUE
  /\ currentModule = NullModule
  /\ currentStep = NullStep
  /\ quizQuestions = <<>>
  /\ currentQuizIndex = 0
  /\ selectedAnswerIndex = -1
  /\ quizCompleted = FALSE
  /\ showQuizFeedback = FALSE
  /\ currentModuleNumber = 1
  /\ currentStepNumber = 1
  /\ isAssessmentComplete = "unset"
  /\ chatMessages = <<>>
  /\ timers = 0

\* the components are not instantiated in SpecService
NoComponent ==
  /\ userId = Undefined
  /\ dashboardStats = [activeAgents |-> 4, overallProgress |-> 0,
                       completedModules |-> 0, totalModules |-> 0]
  /\ learningModules = <<>>
  /\ planningInsights = <<>>
  /\ agents = <<>>
  /\ learningPlan = "null"
  /\ isLoading = TRUE
  /\ hasError = FALSE
  /\ isInitialized = FALSE
  /\ subscriptions = 0
  /\ ops = 0
  /\ run = [name |-> "none", pc |-> "idle", step |-> 0]
  /\ NoLearningPage

InitService ==
  /\ posts = <<>>
  /\ calls = <<>>
  /\ notifs = <<>>
  /\ NoComponent

\* subscribe() to the observable returned by a send operation
ServiceCall(variant, op, agentType, uid, message) ==
  /\ Len(calls) < MaxCalls
  /\ LET r == ServiceSend(variant, op, agentType, uid, message)
         c == [variant |-> variant, op |-> op, agentType |-> agentType,
               userId |-> uid, message |-> message]
     IN /\ calls' = Append(calls, c)
        /\ IF r.post
           THEN /\ posts' = Append(posts, NewPost(Len(calls) + 1, "call", r))
                /\ notifs' = Append(notifs, <<>>)
           ELSE /\ notifs' = Append(notifs, << Next1(r.resp), Complete >>)
                /\ UNCHANGED posts
  /\ UNCHANGED <<dashVars, learnVars>>

\* the HTTP layer answers request i
ServiceHttpDone(i, outcome) ==
  /\ i \in inflight
  /\ posts' = Answered(i, outcome)
  /\ notifs' = [notifs EXCEPT ![posts[i].owner] = @ \o Pipe(posts[i].req, outcome)]
  /\ UNCHANGED <<calls, dashVars, learnVars>>

ServiceReply ==
  \E i \in inflight : \E p \in ServicePayloads : ServiceHttpDone(i, HttpOk(p))

ServiceFailure ==
  \E i \in inflight : \E e \in HttpErrors : ServiceHttpDone(i, HttpFailed(e))

ServiceInvoke ==
  \* agentType is typed keyof typeof environment.agentServices
  \E v \in Variants, op \in Ops, a \in AgentTypes,
     u \in UserIds, m \in ServiceMessages :
       /\ (op # "sendToAgent" => a = "assessmentAgent")
       /\ ServiceCall(v, op, a, u, m)

NextService == ServiceInvoke \/ ServiceReply \/ ServiceFailure

SpecService == InitService /\ [][NextService]_vars

(***************************************************************************)
(* AgentDashboard (src/frontend/src/app/agent-dashboard/agent-dashboard.ts)*)
(* It uses the frontend revision of AgentService.                          *)
(***************************************************************************)
\* the user.sub that auth.user$ delivers
DashUser == <<"a", "u", "t", "h", "0", "|", "6", "5", "f", "2">>

\* a prompt: the tool it names, the user id written into it, its arguments
Msg(tool, uid, args) == [tool |-> tool, user_id |-> uid, args |-> args]

\* undefined || d, 0 || d
OrElse(x, d) == IF x = 0 THEN d ELSE x

\* response.data.<name>: undefined (0) when the reply has no such property
Field(data, name) == IF name \in DOMAIN data.fields THEN data.fields[name] ELSE 0

HasField(data, name) == name \in DOMAIN data.fields

InitialStats ==
  [activeAgents |-> 4, overallProgress |-> 0, completedModules |-> 0, totalModules |-> 0]

FallbackStats ==
  [activeAgents |-> 4, overallProgress |-> 33, completedModules |-> 2, totalModules |-> 6]

FallbackModules ==
  << [name |-> "Investment Basics",      progress |-> 0, status |-> "in-progress"],
     [name |-> "Risk Assessment",        progress |-> 0, status |-> "completed"],
     [name |-> "Portfolio Building",     progress |-> 0, status |-> "in-progress"],
     [name |-> "Retirement Planning",    progress |-> 0, status |-> "upcoming"],
     [name |-> "Financial Goals",        progress |-> 0, status |-> "upcoming"],
     [name |-> "Budgeting Fundamentals", progress |-> 0, status |-> "upcoming"] >>

Insight(label, value) == [label |-> label, value |-> value]

FallbackInsights ==
  << Insight("Risk Profile", "Moderate investor with personalized strategies"),
     Insight("Learning Approach", "Visual learning optimized for maximum retention"),
     Insight("Learning Path", "6 personalized modules designed for your level"),
     Insight("Timeline", "8-12 hours to complete your financial education") >>

\* an AgentStatus: task is "fallback" (the text of setFallbackData), "rotating"
\* (one of the texts of updateAgentActivities) or "agent" (sent by the agent);
\* detail stands for the decision/prediction properties in the same way
Agent(name, status, task, detail) ==
  [name |-> name, status |-> status, task |-> task, detail |-> detail]

AgentNames ==
  << "Assessment Agent", "Planning Agent", "Progress Agent", "Content Delivery Agent" >>

FallbackAgents ==
  << Agent("Assessment Agent", "Active", "fallback", "fallback"),
     Agent("Planning Agent", "Thinking", "fallback", "fallback"),
     Agent("Progress Agent", "Monitoring", "fallback", "fallback"),
     Agent("Content Delivery Agent", "Active", "fallback", "fallback") >>

\* extractNumber(text, regex) || default, per captured key
Scraped(text, key) == IF key \in DOMAIN text.facts THEN text.facts[key] ELSE 0

ParseDashboardStatsFromText(text) ==
  [activeAgents     |-> OrElse(Scraped(text, "active_agents"), 4),
   overallProgress  |-> OrElse(Scraped(text, "progress"), 0),
   completedModules |-> OrElse(Scraped(text, "completed_modules"), 0),
   totalModules     |-> OrElse(Scraped(text, "total_modules"), 0)]

\* the "<name>: <n>%" matches of the text, in order
ParseLearningModulesFromText(text) ==
  IF "modules" \in DOMAIN text.facts
  THEN LET ms == text.facts.modules IN
       [i \in 1..Len(ms) |->
          [name |-> ms[i].name, progress |-> ms[i].progress,
           status |-> IF ms[i].progress = 100 THEN "completed"
                      ELSE IF ms[i].progress > 0 THEN "in-progress"
                      ELSE "upcoming"]]
  ELSE <<>>

ParsePlanningInsightsFromText(text) ==
  LET risk  == IF (Includes(text, "Risk Tolerance:") \/ Includes(text, "Risk Profile:"))
               THEN << Insight("Risk Profile", text.facts.risk) >> ELSE <<>>
      style == IF Includes(text, "Learning Style:")
               THEN << Insight("Learning Approach", text.facts.style) >> ELSE <<>>
      total == IF Includes(text, "Total Modules:")
               THEN << Insight("Learning Path", text.facts.total) >> ELSE <<>>
      insights == risk \o style \o total
  IN IF Len(insights) > 0 THEN insights
     ELSE << Insight("Personalized learning plan being created", ""),
             Insight("Complete assessment to unlock full insights", "") >>

ParseAgentActivitiesFromText(text) == <<>>

\* the view-model signals the loaders write
Signals ==
  [stats |-> dashboardStats, modules |-> learningModules,
   insights |-> planningInsights, agents |-> agents, plan |-> learningPlan]

\* setFallbackData()
SetFallbackData ==
  [stats |-> FallbackStats, modules |-> FallbackModules,
   insights |-> FallbackInsights, agents |-> FallbackAgents, plan |-> "fallback"]

\* response.status === 'success' && response.data
SuccessWithData(r) == r.status = "success" /\ ~r.data.isNull

\* loadDashboardStats after its await; st is the settled promise
LoadDashboardStatsDone(sig, st) ==
  IF st.state # "resolved" THEN sig
  ELSE LET r == st.value IN
    IF SuccessWithData(r)
    THEN [sig EXCEPT !.stats =
            [activeAgents     |-> OrElse(Field(r.data, "active_agents"), 4),
             overallProgress  |-> OrElse(Field(r.data, "overall_progress"), 0),
             completedModules |-> OrElse(Field(r.data, "completed_modules"), 0),
             totalModules     |-> OrElse(Field(r.data, "total_modules"), 0)]]
    ELSE [sig EXCEPT !.stats = ParseDashboardStatsFromText(r.response)]

CompletedCount(ms) == Cardinality({ i \in 1..Len(ms) : ms[i].status = "completed" })

\* loadLearningModules after its await
LoadLearningModulesDone(sig, st) ==
  IF st.state # "resolved" THEN sig
  ELSE LET r == st.value IN
    IF SuccessWithData(r) /\ HasField(r.data, "modules")
    THEN LET src == r.data.fields.modules
             ms  == [i \in 1..Len(src) |->
                       [name     |-> src[i].name,
                        progress |-> OrElse(src[i].progress, 0),
                        status   |-> IF src[i].status = "" THEN "upcoming"
                                     ELSE src[i].status]]
         IN [sig EXCEPT
               !.modules = ms,
               !.stats = [@ EXCEPT
                  !.totalModules = OrElse(Field(r.data, "total_modules"), Len(ms)),
                  !.completedModules = OrElse(Field(r.data, "completed_count"),
                                              CompletedCount(ms)),
                  !.overallProgress = OrElse(Field(r.data, "overall_progress"),
                                             sig.stats.overallProgress)]]
    ELSE [sig EXCEPT !.modules = ParseLearningModulesFromText(r.response)]

\* loadPlanningInsights after its await
LoadPlanningInsightsDone(sig, st) ==
  IF st.state # "resolved" THEN sig
  ELSE LET r == st.value IN
    IF SuccessWithData(r)
    THEN [sig EXCEPT
            !.insights = IF HasField(r.data, "insights")
                         THEN r.data.fields.insights ELSE <<>>,
            !.plan = IF HasField(r.data, "learning_plan_exists")
                     THEN "response" ELSE "null"]
    ELSE [sig EXCEPT !.insights = ParsePlanningInsightsFromText(r.response)]

\* loadAgentActivities after its await
LoadAgentActivitiesDone(sig, st) ==
  IF st.state # "resolved" THEN sig
  ELSE LET r == st.value IN
    IF SuccessWithData(r) /\ HasField(r.data, "agents")
    THEN LET src == r.data.fields.agents IN
         [sig EXCEPT !.agents =
            [i \in 1..Len(src) |-> Agent(src[i].name, src[i].status, "agent", "agent")]]
    ELSE [sig EXCEPT !.agents = ParseAgentActivitiesFromText(r.response)]

LoaderTags == {"stats", "modules", "insights", "activities"}

LoaderDone(tag, sig, st) ==
  CASE tag = "stats"      -> LoadDashboardStatsDone(sig, st)
    [] tag = "modules"    -> LoadLearningModulesDone(sig, st)
    [] tag = "insights"   -> LoadPlanningInsightsDone(sig, st)
    [] tag = "activities" -> LoadAgentActivitiesDone(sig, st)

\* the request each loader sends before its await
LoaderPost(tag, u) ==
  CASE tag = "stats" ->
         NewPost("fg", tag, ServiceSend("frontend", "sendToProgressAgent", "progressAgent",
                 u, Msg("get_dashboard_stats", u, NoFields)))
    [] tag = "modules" ->
         NewPost("fg", tag, ServiceSend("frontend", "sendToProgressAgent", "progressAgent",
                 u, Msg("get_learning_modules", u, NoFields)))
    [] tag = "insights" ->
         NewPost("fg", tag, ServiceSend("frontend", "sendToPlanningAgent", "planningAgent",
                 u, Msg("get_dashboard_insights", u, NoFields)))
    [] tag = "activities" ->
         NewPost("fg", tag, ServiceSend("frontend", "sendToAssessmentAgent", "assessmentAgent",
                 u, Msg("get_agent_activities", Undefined, NoFields)))

\* the loaders started together, in the order of the array literal
StartLoaders(tags, u) == [i \in 1..Len(tags) |-> LoaderPost(tags[i], u)]

\* a loadAllAgentData that starts the stats loader a second time
LoadAllAgentDataTwice(u) ==
  StartLoaders(<<"stats", "modules", "insights", "activities", "stats">>, u)

\* loadAllAgentData: Promise.allSettled of the four loaders
LoadAllAgentData(u) == StartLoaders(<<"stats", "modules", "insights", "activities">>, u)

\* the five prompts with the third and the fourth exchanged
ChainPostSwapped(k, u) ==
  CASE k = 1 -> NewPost("fg", "chain", ServiceSend("frontend", "sendToPlanningAgent",
                  "planningAgent", u, Msg("get_assessment_handoff", u, NoFields)))
    [] k = 2 -> NewPost("fg", "chain", ServiceSend("frontend", "sendToPlanningAgent",
                  "planningAgent", u, Msg("create_learning_path", u, NoFields)))
    [] k = 3 -> NewPost("fg", "chain", ServiceSend("frontend", "sendToProgressAgent",
                  "progressAgent", u, Msg("get_planning_handoff", u, NoFields)))
    [] k = 4 -> NewPost("fg", "chain", ServiceSend("frontend", "sendToPlanningAgent",
                  "planningAgent", u, Msg("prepare_progress_handoff", u,
                  [message |-> "Learning path ready for progress tracking"])))
    [] k = 5 -> NewPost("fg", "chain", ServiceSend("frontend", "sendToProgressAgent",
                  "progressAgent", u, Msg("prepare_content_handoff", u,
                  [message |-> "User ready for content delivery"])))

\* the five prompts of orchestrateAgentHandoffs
ChainPost(k, u) ==
  CASE k = 1 -> NewPost("fg", "chain", ServiceSend("frontend", "sendToPlanningAgent",
                  "planningAgent", u, Msg("get_assessment_handoff", u, NoFields)))
    [] k = 2 -> NewPost("fg", "chain", ServiceSend("frontend", "sendToPlanningAgent",
                  "planningAgent", u, Msg("create_learning_path", u, NoFields)))
    [] k = 3 -> NewPost("fg", "chain", ServiceSend("frontend", "sendToPlanningAgent",
                  "planningAgent", u, Msg("prepare_progress_handoff", u,
                  [message |-> "Learning path ready for progress tracking"])))
    [] k = 4 -> NewPost("fg", "chain", ServiceSend("frontend", "sendToProgressAgent",
                  "progressAgent", u, Msg("get_planning_handoff", u, NoFields)))
    [] k = 5 -> NewPost("fg", "chain", ServiceSend("frontend", "sendToProgressAgent",
                  "progressAgent", u, Msg("prepare_content_handoff", u,
                  [message |-> "User ready for content delivery"])))

\* an orchestrateAgentHandoffs that does not test the reply to step 3
OrchestrateSkipCheck(k, st) ==
  IF st.state # "resolved"
  THEN IF k = 5 THEN "return" ELSE "throw"
  ELSE LET r == st.value.response IN
    CASE k = 1 -> IF Includes(r, "No assessment handoff found") THEN "return" ELSE "send"
      [] k = 2 -> IF Includes(r, "Learning Path Created") THEN "send" ELSE "return"
      [] k = 3 -> "send"
      [] k = 4 -> IF Includes(r, "Learning Path Received") THEN "send" ELSE "return"
      [] OTHER -> "return"

\* what orchestrateAgentHandoffs does with the settled promise of step k:
\* "send" the next step, "return", or "throw" to the caller
OrchestrateAgentHandoffs(k, st) ==
  IF st.state # "resolved"
  THEN IF k = 5 THEN "return" ELSE "throw"
  ELSE LET r == st.value.response IN
    CASE k = 1 -> IF Includes(r, "No assessment handoff found") THEN "return" ELSE "send"
      [] k = 2 -> IF Includes(r, "Learning Path Created") THEN "send" ELSE "return"
      [] k = 3 -> IF Includes(r, "Progress Agent Handoff Prepared") THEN "send" ELSE "return"
      [] k = 4 -> IF Includes(r, "Learning Path Received") THEN "send" ELSE "return"
      [] OTHER -> "return"

\* the four prompts of debugHandoffStatus
DebugPost(k, u) ==
  CASE k = 1 -> NewPost("fg", "debug", ServiceSend("frontend", "sendToPlanningAgent",
                  "planningAgent", u, Msg("get_assessment_handoff", u, NoFields)))
    [] k = 2 -> NewPost("fg", "debug", ServiceSend("frontend", "sendToPlanningAgent",
                  "planningAgent", u, Msg("get_user_learning_path", u, NoFields)))
    [] k = 3 -> NewPost("fg", "debug", ServiceSend("frontend", "sendToProgressAgent",
                  "progressAgent", u, Msg("get_planning_handoff", u, NoFields)))
    [] k = 4 -> NewPost("fg", "debug", ServiceSend("frontend", "sendToPlanningAgent",
                  "planningAgent", u, Msg("get_database_info", u, NoFields)))

\* updateAgentActivities(): every agent gets a task drawn from its list, the
\* agents missing by name are appended
RECURSIVE AddMissing(_, _)
AddMissing(as, k) ==
  IF k > Len(AgentNames) THEN as
  ELSE IF \E i \in 1..Len(as) : as[i].name = AgentNames[k]
       THEN AddMissing(as, k + 1)
       ELSE AddMissing(Append(as, Agent(AgentNames[k], "Active", "rotating", "none")), k + 1)

UpdateAgentActivities(as) ==
  AddMissing([i \in 1..Len(as) |->
                IF \E k \in 1..Len(AgentNames) : AgentNames[k] = as[i].name
                THEN [as[i] EXCEPT !.task = "rotating"]
                ELSE as[i]], 1)

(***************************************************************************)
(* SpecDashboard                                                           *)
(***************************************************************************)
Idle == [name |-> "none", pc |-> "idle", step |-> 0]

InitDashboard ==
  /\ posts = <<>>
  /\ calls = <<>>
  /\ notifs = <<>>
  /\ userId = Undefined
  /\ dashboardStats = InitialStats
  /\ learningModules = <<>>
  /\ planningInsights = <<>>
  /\ agents = <<>>
  /\ learningPlan = "null"
  /\ isLoading = TRUE
  /\ hasError = FALSE
  /\ isInitialized = FALSE
  /\ subscriptions = 0
  /\ ops = 0
  /\ run = Idle
  /\ NoLearningPage

TextReply(t) == HttpOk(Payload(t, EmptyText, "", NoFields))

DataReply(f) == HttpOk(Payload(EmptyText, EmptyText, "", f))

\* the failure the dashboard's requests meet when an agent is down
DashFailure == HttpFailed("status 0: unknown error")

NoHandoffText ==
  Txt("No assessment handoff found for this user.", 42, {"No assessment handoff found"})

\* the reply the agent gives to handoff step k when the step succeeds
ChainSuccessText(k) ==
  CASE k = 1 -> Txt("Assessment handoff: beginner, moderate risk.", 44, {})
    [] k = 2 -> Txt("Learning Path Created with 6 modules.", 37, {"Learning Path Created"})
    [] k = 3 -> Txt("Progress Agent Handoff Prepared.", 32, {"Progress Agent Handoff Prepared"})
    [] k = 4 -> Txt("Learning Path Received by progress agent.", 41, {"Learning Path Received"})
    [] OTHER -> Txt("Content Agent Handoff Prepared.", 31, {})

\* the outcomes of handoff step k: success, "nothing found", agent down
ChainOutcomes(k) ==
  { TextReply(ChainSuccessText(k)), TextReply(NoHandoffText), DashFailure }

PlainOutcomes == { TextReply(Txt("Done.", 5, {})), DashFailure }

LoaderOutcomes(tag) ==
  CASE tag = "stats" ->
         { DataReply([active_agents |-> 3, overall_progress |-> 50,
                      completed_modules |-> 3, total_modules |-> 6]),
           DashFailure }
    [] tag = "modules" ->
         { TextReply(TxtF("Investment Basics: 100%, Risk Assessment: 40%", 45, {},
                          [modules |-> << [name |-> "Investment Basics", progress |-> 100],
                                          [name |-> "Risk Assessment", progress |-> 40] >>])),
           DataReply([modules |-> << [name |-> "Budgeting", progress |-> 0, status |-> ""],
                                     [name |-> "Investing", progress |-> 100,
                                      status |-> "completed"] >>,
                      overall_progress |-> 50]),
           DashFailure }
    [] tag = "insights" ->
         { DataReply([insights |-> << Insight("Risk Profile", "moderate") >>,
                      learning_plan_exists |-> 1]),
           DashFailure }
    [] tag = "activities" ->
         { DataReply([agents |-> << [name |-> "Planning Agent", status |-> "Idle"] >>]),
           DashFailure }

\* the log keeps the answered requests of the current phase of an operation
\* (handoff chain, loaders, debug): those of the phase before leave it when
\* the first request of the current phase is answered
Phase(ps, tags) == SelectSeq(ps, LAMBDA p : p.pending \/ p.tag \in tags)

\* the log without its i-th entry: an answered request of an earlier
\* operation is dropped from the log
Remove(ps, i) == [k \in 1..(Len(ps) - 1) |-> IF k < i THEN ps[k] ELSE ps[k + 1]]

\* an operation starts with the log of the previous operation dropped; the
\* requests of earlier operations still unanswered stay, as background
CarryOver ==
  LET left == SelectSeq(posts, LAMBDA p : p.pending)
  IN [i \in 1..Len(left) |-> [left[i] EXCEPT !.owner = "bg"]]

CanStart ==
  /\ run.name = "none"
  /\ ops < MaxOps
  /\ Cardinality(inflight) <= MaxBackground

FgLoadersPending ==
  { i \in inflight : posts[i].owner = "fg" /\ posts[i].tag \in LoaderTags }

SignalsUnchanged ==
  UNCHANGED <<dashboardStats, learningModules, planningInsights, agents, learningPlan>>

SetSignals(sig) ==
  /\ dashboardStats' = sig.stats
  /\ learningModules' = sig.modules
  /\ planningInsights' = sig.insights
  /\ agents' = sig.agents
  /\ learningPlan' = sig.plan

\* initializeDashboard up to its first await
InitializeDashboard(u) ==
  /\ isLoading' = TRUE
  /\ hasError' = FALSE
  /\ SetSignals(SetFallbackData)
  /\ posts' = Append(CarryOver, ChainPost(1, u))
  /\ run' = [name |-> "initializeDashboard", pc |-> "chain", step |-> 1]
  /\ ops' = ops + 1
  /\ UNCHANGED <<isInitialized, subscriptions, calls, notifs, learnVars>>

\* the end of initializeDashboard, by its try or its catch block, and finally
FinishInitialize ==
  /\ isInitialized' = TRUE
  /\ subscriptions' = subscriptions + 1
  /\ isLoading' = FALSE
  /\ run' = Idle

\* ngOnInit: auth.user$ delivers a user with a sub
NgOnInitUser ==
  /\ CanStart
  /\ userId = Undefined
  /\ userId' = DashUser
  /\ InitializeDashboard(DashUser)

\* retryLoadData()
RetryLoadData ==
  /\ CanStart
  /\ userId # Undefined
  /\ UNCHANGED userId
  /\ InitializeDashboard(userId)

\* triggerHandoffChain() up to its first await
TriggerHandoffChain ==
  /\ CanStart
  /\ userId # Undefined
  /\ posts' = Append(CarryOver, ChainPost(1, userId))
  /\ run' = [name |-> "triggerHandoffChain", pc |-> "chain", step |-> 1]
  /\ ops' = ops + 1
  /\ SignalsUnchanged
  /\ UNCHANGED <<userId, isLoading, hasError, isInitialized, subscriptions, calls, notifs, learnVars>>

\* testUserHistory() up to its first await
TestUserHistory ==
  /\ CanStart
  /\ userId # Undefined
  /\ posts' = Append(CarryOver, ChainPost(1, userId))
  /\ run' = [name |-> "testUserHistory", pc |-> "chain", step |-> 1]
  /\ ops' = ops + 1
  /\ SignalsUnchanged
  /\ UNCHANGED <<userId, isLoading, hasError, isInitialized, subscriptions, calls, notifs, learnVars>>

\* learningModules().findIndex(m => m.name === moduleName) + 1
ModuleNumber(ms, moduleName) ==
  IF \E i \in 1..Len(ms) : ms[i].name = moduleName
  THEN CHOOSE i \in 1..Len(ms) :
         /\ ms[i].name = moduleName
         /\ \A j \in 1..(i - 1) : ms[j].name # moduleName
  ELSE 0

\* completeModule(moduleName) up to its first await
CompleteModule(moduleName) ==
  /\ CanStart
  /\ userId # Undefined
  /\ posts' = Append(CarryOver,
       NewPost("fg", "complete", ServiceSend("frontend", "sendToProgressAgent",
         "progressAgent", userId,
         Msg("complete_module", userId,
             [module_number |-> ModuleNumber(learningModules, moduleName),
              final_score |-> 85]))))
  /\ run' = [name |-> "completeModule", pc |-> "first", step |-> 0]
  /\ ops' = ops + 1
  /\ SignalsUnchanged
  /\ UNCHANGED <<userId, isLoading, hasError, isInitialized, subscriptions, calls, notifs, learnVars>>

CompleteModuleClick ==
  \E k \in 1..Min(Len(learningModules), MaxModuleChoice) :
    CompleteModule(learningModules[k].name)

\* the caller of orchestrateAgentHandoffs resumes after the chain returned
AfterChainReturn(answered) ==
  CASE run.name = "initializeDashboard" ->
         /\ posts' = answered \o LoadAllAgentData(userId)
         /\ run' = [run EXCEPT !.pc = "race", !.step = 0]
         /\ UNCHANGED <<isLoading, isInitialized, subscriptions>>
    [] run.name = "triggerHandoffChain" ->
         /\ posts' = answered \o LoadAllAgentData(userId)
         /\ run' = [run EXCEPT !.pc = "loadAll", !.step = 0]
         /\ UNCHANGED <<isLoading, isInitialized, subscriptions>>
    [] run.name = "testUserHistory" ->
         /\ posts' = answered \o
              StartLoaders(<<"activities", "insights", "modules", "stats">>, userId)
         /\ run' = [run EXCEPT !.pc = "all", !.step = 0]
         /\ UNCHANGED <<isLoading, isInitialized, subscriptions>>

\* the caller's catch block after the chain threw
AfterChainThrow(answered) ==
  /\ posts' = answered
  /\ IF run.name = "initializeDashboard"
     THEN FinishInitialize
     ELSE /\ run' = Idle
          /\ UNCHANGED <<isLoading, isInitialized, subscriptions>>

\* the reply to (or failure of) the handoff step in flight arrives and
\* orchestrateAgentHandoffs runs to its next await or to its end
ChainStep ==
  \E i \in inflight : \E o \in ChainOutcomes(run.step) :
    /\ posts[i].owner = "fg"
    /\ posts[i].tag = "chain"
    /\ run.pc = "chain"
    /\ LET st  == Settle(Pipe(posts[i].req, o))
           nxt == OrchestrateAgentHandoffs(run.step, st)
       IN CASE nxt = "send" ->
                 /\ posts' = Append(Answered(i, o), ChainPost(run.step + 1, userId))
                 /\ run' = [run EXCEPT !.step = run.step + 1]
                 /\ UNCHANGED <<isLoading, isInitialized, subscriptions>>
            [] nxt = "return" -> AfterChainReturn(Answered(i, o))
            [] nxt = "throw"  -> AfterChainThrow(Answered(i, o))
    /\ SignalsUnchanged
    /\ UNCHANGED <<userId, hasError, ops, calls, notifs, learnVars>>

\* what awaits the loaders resumes once the last of them has settled
AfterLoaders(answered) ==
  CASE run.name = "initializeDashboard" ->
         /\ posts' = answered
         /\ FinishInitialize
    [] run.name = "testUserHistory" ->
         /\ posts' = Append(answered, DebugPost(1, userId))
         /\ run' = [run EXCEPT !.pc = "debug", !.step = 1]
         /\ UNCHANGED <<isLoading, isInitialized, subscriptions>>
    [] OTHER ->
         /\ posts' = answered
         /\ run' = Idle
         /\ UNCHANGED <<isLoading, isInitialized, subscriptions>>

\* the reply to (or failure of) a loader's request arrives: the loader runs
\* to its end, and if it was the last one the awaiting operation resumes
LoaderStep ==
  \E i \in inflight :
    /\ posts[i].tag \in LoaderTags
    /\ \E o \in LoaderOutcomes(posts[i].tag) :
         /\ SetSignals(LoaderDone(posts[i].tag, Signals, Settle(Pipe(posts[i].req, o))))
         /\ IF posts[i].owner = "fg" /\ FgLoadersPending = {i}
            THEN AfterLoaders(Phase(Answered(i, o), LoaderTags))
            ELSE /\ posts' = IF posts[i].owner = "bg" THEN Remove(posts, i)
                           ELSE Phase(Answered(i, o), LoaderTags)
                 /\ UNCHANGED <<run, isLoading, isInitialized, subscriptions>>
    /\ UNCHANGED <<userId, hasError, ops, calls, notifs, learnVars>>

\* the 15 s timer of initializeDashboard fires while loadAllAgentData is
\* still waiting: Promise.race rejects and the catch block runs; the loaders'
\* requests stay in flight
LoadingTimeout ==
  /\ run.name = "initializeDashboard"
  /\ run.pc = "race"
  /\ FinishInitialize
  /\ SignalsUnchanged
  /\ UNCHANGED <<posts, userId, hasError, ops, calls, notifs, learnVars>>

\* completeModule after its first await
CompleteModuleStep ==
  \E i \in inflight : \E o \in PlainOutcomes :
    /\ posts[i].owner = "fg"
    /\ posts[i].tag = "complete"
    /\ IF Settle(Pipe(posts[i].req, o)).state = "resolved"
       THEN /\ posts' = Answered(i, o) \o
                  StartLoaders(<<"modules", "insights", "stats">>, userId)
            /\ run' = [run EXCEPT !.pc = "all"]
       ELSE /\ posts' = Answered(i, o)
            /\ run' = Idle
    /\ SignalsUnchanged
    /\ UNCHANGED <<userId, isLoading, hasError, isInitialized, subscriptions, ops,
                   calls, notifs, learnVars>>

\* debugHandoffStatus after each of its awaits
DebugStep ==
  \E i \in inflight : \E o \in PlainOutcomes :
    /\ posts[i].owner = "fg"
    /\ posts[i].tag = "debug"
    /\ IF Settle(Pipe(posts[i].req, o)).state = "resolved" /\ run.step < 4
       THEN /\ posts' = Append(Phase(Answered(i, o), {"debug"}),
                                DebugPost(run.step + 1, userId))
            /\ run' = [run EXCEPT !.step = run.step + 1]
       ELSE /\ posts' = Phase(Answered(i, o), {"debug"})
            /\ run' = Idle
    /\ SignalsUnchanged
    /\ UNCHANGED <<userId, isLoading, hasError, isInitialized, subscriptions, ops,
                   calls, notifs, learnVars>>

\* a tick of one of the interval(30000) subscriptions
PeriodicUpdate ==
  /\ subscriptions > 0
  /\ isInitialized
  /\ agents' = UpdateAgentActivities(agents)
  /\ UNCHANGED <<posts, calls, notifs, learnVars, userId, dashboardStats, learningModules,
                 planningInsights, learningPlan, isLoading, hasError,
                 isInitialized, subscriptions, ops, run>>

NextDashboard ==
  \/ NgOnInitUser
  \/ RetryLoadData
  \/ TriggerHandoffChain
  \/ TestUserHistory
  \/ CompleteModuleClick
  \/ ChainStep
  \/ LoaderStep
  \/ LoadingTimeout
  \/ CompleteModuleStep
  \/ DebugStep
  \/ PeriodicUpdate

SpecDashboard == InitDashboard /\ [][NextDashboard]_vars

\* SpecDashboard with the 15 s timer of initializeDashboard bound to fire
\* when it is armed; the agents may answer, fail, or never answer
SpecDashboardTimer == InitDashboard /\ [][NextDashboard]_vars /\ WF_vars(LoadingTimeout)

(***************************************************************************)
(* LearningPage (src/frontend/src/app/learning-page/learning-page.ts, the  *)
(* first class of the file).  It uses the frontend revision of             *)
(* AgentService.  The activity feed is display only and is not part of the *)
(* state here; of the chat, the messages nextStep appends are.             *)
(***************************************************************************)

\* String.prototype.toLowerCase, on the needles a text contains
LowerCase(s) ==
  CASE s = "Welcome"                -> "welcome"
    [] s = "Assessment History"     -> "assessment history"
    [] s = "Knowledge Level"        -> "knowledge level"
    [] s = "Risk Tolerance"         -> "risk tolerance"
    [] s = "No previous"            -> "no previous"
    [] s = "No assessment"          -> "no assessment"
    [] s = "Learning Path"          -> "learning path"
    [] s = "No learning path found" -> "no learning path found"
    [] s = "Modules"                -> "modules"
    [] s = "Total Modules"          -> "total modules"
    [] s = "Learning Path Created"  -> "learning path created"
    [] s = "Failed"                 -> "failed"
    [] s = "Error"                  -> "error"
    [] OTHER                        -> s

ToLowerCase(t) == [t EXCEPT !.phrases = { LowerCase(x) : x \in t.phrases }]

\* a text with a JSON object embedded in it
TxtJ(s, n, json) == [str |-> s, len |-> n, phrases |-> {}, json |-> json,
                     facts |-> NoFields]

\* data.<name> || dflt
Prop(data, name, dflt) == IF name \in DOMAIN data THEN data[name] ELSE dflt

\* the try block shared by the three parse functions: the object matched by
\* /\{[\s\S]*\}/ and parsed, accepted when status === 'success' && data
ParsedData(response) ==
  LET j == response.response.json
  IN IF j.status = "success" /\ j.data # NoFields
     THEN [ok |-> TRUE, data |-> j.data]
     ELSE [ok |-> FALSE, data |-> NoFields]

FallbackModuleTitles ==
  << [title |-> <<"Investment Fundamentals">>, topic |-> "Investment Basics"],
     [title |-> <<"Risk Assessment & Management">>, topic |-> "Risk Management"],
     [title |-> <<"Retirement Planning Essentials">>, topic |-> "Retirement Planning"] >>

\* fallbackModules[moduleNumber - 1] || fallbackModules[0]
CreateFallbackModuleContent(moduleNumber) ==
  LET m == IF moduleNumber \in 1..Len(FallbackModuleTitles)
           THEN FallbackModuleTitles[moduleNumber] ELSE FallbackModuleTitles[1]
  IN [isNull |-> FALSE, title |-> m.title, moduleNumber |-> moduleNumber,
      topic |-> m.topic, difficulty |-> "Beginner"]

ParseModuleContent(response, moduleNumber) ==
  LET p == ParsedData(response)
  IN IF p.ok
     THEN [isNull |-> FALSE,
           title |-> Prop(p.data, "title", <<"Module ", moduleNumber>>),
           moduleNumber |-> moduleNumber,
           topic |-> Prop(p.data, "topic", "Financial Literacy"),
           difficulty |-> Prop(p.data, "difficulty", "Beginner")]
     ELSE CreateFallbackModuleContent(moduleNumber)

FallbackStepTitles ==
  << <<"Understanding the Basics">>, <<"Practical Applications">>,
     <<"Building Your Strategy">> >>

DefaultTotalSteps == 5

\* fallbackSteps[stepNumber - 1] || fallbackSteps[0]
CreateFallbackStepContent(stepNumber) ==
  [isNull |-> FALSE,
   title |-> IF stepNumber \in 1..Len(FallbackStepTitles)
             THEN FallbackStepTitles[stepNumber] ELSE FallbackStepTitles[1],
   stepNumber |-> stepNumber, totalSteps |-> DefaultTotalSteps]

ParseLessonStep(response, stepNumber) ==
  LET p == ParsedData(response)
  IN IF p.ok
     THEN [isNull |-> FALSE,
           title |-> Prop(p.data, "title", <<"Learning Step ", stepNumber>>),
           stepNumber |-> stepNumber,
           totalSteps |-> OrElse(Prop(p.data, "total_steps", 0), DefaultTotalSteps)]
     ELSE CreateFallbackStepContent(stepNumber)

Question(q, n, c) == [question |-> q, options |-> n, correct |-> c]

\* the three questions of createFallbackQuizQuestions, four options each
CreateFallbackQuizQuestions ==
  << Question("What is the primary benefit of diversifying?", 4, "B"),
     Question("Which factor is most important for your strategy?", 4, "C"),
     Question("What does 'compound interest' mean?", 4, "B") >>

\* the quizQuestions signal after parseQuizQuestions
ParseQuizQuestions(response) ==
  LET p == ParsedData(response)
  IN IF p.ok /\ "questions" \in DOMAIN p.data
     THEN [i \in 1..Len(p.data.questions) |->
             Question(p.data.questions[i].question,
                      Prop(p.data.questions[i], "options", 0),
                      Prop(p.data.questions[i], "correct", "A"))]
     ELSE CreateFallbackQuizQuestions

\* the catch blocks of loadModuleContent and loadLessonStep
ErrorModule(moduleNumber) ==
  [isNull |-> FALSE, title |-> <<"Error Loading Module">>,
   moduleNumber |-> moduleNumber, topic |-> "Error", difficulty |-> "Error"]

ErrorStep(stepNumber) ==
  [isNull |-> FALSE, title |-> <<"Error Loading Step">>, stepNumber |-> stepNumber,
   totalSteps |-> 1]

\* loadModuleContent, loadLessonStep, loadQuizQuestions from the settled
\* promise of their request on
LoadModuleContentDone(st, moduleNumber) ==
  IF st.state = "resolved" THEN ParseModuleContent(st.value, moduleNumber)
  ELSE ErrorModule(moduleNumber)

LoadLessonStepDone(st, stepNumber) ==
  IF st.state = "resolved" THEN ParseLessonStep(st.value, stepNumber)
  ELSE ErrorStep(stepNumber)

LoadQuizQuestionsDone(st) ==
  IF st.state = "resolved" THEN ParseQuizQuestions(st.value) ELSE <<>>

MinAssessments == 3

MinTopicMatches == 3

SubstantialLength == 100

CreatedLength == 50

\* checkAssessmentStatus from the settled promise of its request on:
\* "path" when it goes on to checkOrCreateLearningPath, "false" when it
\* returns false
CheckAssessmentStatus(st) ==
  IF st.state # "resolved" THEN "false"
  ELSE LET response == ToLowerCase(st.value.response) IN
    IF Scraped(response, "assessments") >= MinAssessments THEN "path"
    ELSE IF /\ Includes(response, "assessment history")
            /\ \/ Includes(response, "knowledge level")
               \/ Includes(response, "risk tolerance")
         THEN "path"
    ELSE IF \/ Includes(response, "no previous")
            \/ Includes(response, "first financial")
            \/ Includes(response, "welcome")
         THEN "false"
    ELSE IF Scraped(response, "topics") >= MinTopicMatches THEN "path"
    ELSE IF /\ response.len > SubstantialLength
            /\ ~Includes(response, "no assessment")
            /\ ~Includes(response, "welcome")
         THEN "path"
    ELSE "false"

\* checkOrCreateLearningPath from the reply to get_user_learning_path on:
\* "true", or "create" when it goes on to create the path
HasLearningPath(st) ==
  IF st.state # "resolved" THEN "false"
  ELSE LET planningResponseText == ToLowerCase(st.value.response) IN
    IF /\ Includes(planningResponseText, "learning path")
       /\ ~Includes(planningResponseText, "no learning path found")
       /\ \/ Includes(planningResponseText, "modules")
          \/ Includes(planningResponseText, "created")
          \/ Includes(planningResponseText, "risk tolerance")
          \/ Includes(planningResponseText, "learning style")
          \/ Includes(planningResponseText, "total modules")
    THEN "true"
    ELSE "create"

\* checkOrCreateLearningPath from the reply to create_learning_path on
PathCreated(st) ==
  IF st.state # "resolved" THEN "false"
  ELSE LET createResponseText == ToLowerCase(st.value.response) IN
    IF \/ Includes(createResponseText, "learning path created")
       \/ Includes(createResponseText, "personalized learning")
       \/ Includes(createResponseText, "modules:")
       \/ Includes(createResponseText, "learning modules")
       \/ Includes(createResponseText, "estimated duration")
       \/ Includes(createResponseText, "total modules")
       \/ (Includes(createResponseText, "success") /\ Includes(createResponseText, "path"))
    THEN "true"
    ELSE IF /\ createResponseText.len > CreatedLength
            /\ ~Includes(createResponseText, "error")
            /\ ~Includes(createResponseText, "failed")
         THEN "true"
    ELSE "false"

Call(op, agentType, u, message) ==
  [variant |-> "frontend", op |-> op, agentType |-> agentType, userId |-> u,
   message |-> message]

\* a loadLearningContent that asks for the quiz before the lesson step
LearningCallSwapped(pc, u, m, s) ==
  CASE pc = "assessment" ->
         Call("sendToAssessmentAgent", "assessmentAgent", u,
              Msg("check my assessment history", Undefined, NoFields))
    [] pc = "checkPath" ->
         Call("sendToPlanningAgent", "planningAgent", u,
              Msg("get_user_learning_path", Undefined, NoFields))
    [] pc = "createPath" ->
         Call("sendToPlanningAgent", "planningAgent", u,
              Msg("create_learning_path", Undefined, NoFields))
    [] pc = "module" ->
         Call("sendToContentAgent", "contentDeliveryAgent", u,
              Msg("Get module content", u, [module_number |-> m]))
    [] pc = "step" ->
         Call("sendToContentAgent", "contentDeliveryAgent", u,
              Msg("Get quiz questions", u, [module_number |-> m]))
    [] pc = "quiz" ->
         Call("sendToContentAgent", "contentDeliveryAgent", u,
              Msg("Get lesson step", u, [module_number |-> m, step_number |-> s]))

\* the service call made at each await of loadLearningContent: the send
\* operation and the prompt, for module m and step s
LearningCall(pc, u, m, s) ==
  CASE pc = "assessment" ->
         Call("sendToAssessmentAgent", "assessmentAgent", u,
              Msg("check my assessment history", Undefined, NoFields))
    [] pc = "checkPath" ->
         Call("sendToPlanningAgent", "planningAgent", u,
              Msg("get_user_learning_path", Undefined, NoFields))
    [] pc = "createPath" ->
         Call("sendToPlanningAgent", "planningAgent", u,
              Msg("create_learning_path", Undefined, NoFields))
    [] pc = "module" ->
         Call("sendToContentAgent", "contentDeliveryAgent", u,
              Msg("Get module content", u, [module_number |-> m]))
    [] pc = "step" ->
         Call("sendToContentAgent", "contentDeliveryAgent", u,
              Msg("Get lesson step", u, [module_number |-> m, step_number |-> s]))
    [] pc = "quiz" ->
         Call("sendToContentAgent", "contentDeliveryAgent", u,
              Msg("Get quiz questions", u, [module_number |-> m]))

\* the POST the service issues for a call
PostOf(pc, c) ==
  NewPost("fg", pc, ServiceSend(c.variant, c.op, c.agentType, c.userId, c.message))

\* a loader that sends its request again when the agent was unavailable
AfterLoadRetry(pc, st) ==
  IF st.state = "resolved" /\ st.value.status = "error" THEN pc
  ELSE CASE pc = "module" -> "step"
         [] pc = "step"   -> "quiz"
         [] OTHER         -> "done"

\* what follows the await of a loader whose request settled as st: the
\* loaders catch what they throw, so the next loader runs whatever st is
AfterLoad(pc, st) ==
  CASE pc = "module" -> "step"
    [] pc = "step"   -> "quiz"
    [] OTHER         -> "done"

(***************************************************************************)
(* SpecLearning                                                            *)
(***************************************************************************)
InitLearning ==
  /\ posts = <<>>
  /\ calls = <<>>
  /\ notifs = <<>>
  /\ userId = Undefined
  /\ dashboardStats = InitialStats
  /\ learningModules = <<>>
  /\ planningInsights = <<>>
  /\ agents = <<>>
  /\ learningPlan = "null"
  /\ isLoading = FALSE
  /\ hasError = FALSE
  /\ isInitialized = FALSE
  /\ subscriptions = 0
  /\ ops = 0
  /\ run = Idle
  /\ NoLearningPage

JsonReply(s, n, data) == TextReply(TxtJ(s, n, [status |-> "success", data |-> data]))

\* replies of the assessment agent to the history prompt
AssessmentOutcomes ==
  { TextReply(TxtF("You have completed 4 assessments.", 33, {}, [assessments |-> 4])),
    TextReply(TxtF("You have completed 1 assessment.", 32, {}, [assessments |-> 1])),
    TextReply(Txt("Welcome! Let's start your first financial assessment.", 53,
                  {"Welcome", "first financial"})),
    TextReply(Txt("Assessment History - Knowledge Level: intermediate", 50,
                  {"Assessment History", "Knowledge Level"})),
    TextReply(TxtF("Results for investment, risk and retirement.", 44, {},
                   [topics |-> 3])),
    TextReply(Txt("(a profile of 150 characters)", 150, {})),
    DashFailure }

\* replies of the planning agent to get_user_learning_path
PathOutcomes ==
  { TextReply(Txt("Your Learning Path: 6 Modules", 29, {"Learning Path", "Modules"})),
    TextReply(Txt("No learning path found for this user.", 37,
                  {"No learning path found", "learning path"})),
    DashFailure }

\* replies of the planning agent to create_learning_path
CreateOutcomes ==
  { TextReply(Txt("Learning Path Created", 21, {"Learning Path Created", "Learning Path"})),
    TextReply(Txt("(a reply of 80 characters)", 80, {})),
    TextReply(Txt("(a reply of 70 characters saying it Failed)", 70, {"Failed"})),
    DashFailure }

\* replies of the content agent
ContentOutcomes(pc) ==
  CASE pc = "module" ->
         { JsonReply("{module}", 90, [title |-> <<"Investing 101">>, topic |-> "ETFs"]),
           TextReply(Txt("Here is your module.", 20, {})),
           DashFailure }
    [] pc = "step" ->
         { JsonReply("{step of 1}", 90, [title |-> <<"What is an ETF?">>, total_steps |-> 1]),
           JsonReply("{step}", 80, [title |-> <<"What is an ETF?">>]),
           DashFailure }
    [] OTHER ->
         { JsonReply("{one question}", 90,
                     [questions |-> << [question |-> "An ETF is ...", options |-> 4,
                                        correct |-> "C"] >>]),
           JsonReply("{no questions}", 40, [questions |-> <<>>]),
           DashFailure }

dashOnly == <<dashboardStats, learningModules, planningInsights, agents,
              learningPlan, hasError, isInitialized, subscriptions>>

quizState == <<currentQuizIndex, selectedAnswerIndex, quizCompleted, showQuizFeedback>>

\* resetQuizState()
ResetQuizState ==
  /\ quizCompleted' = FALSE
  /\ selectedAnswerIndex' = -1
  /\ showQuizFeedback' = FALSE
  /\ currentQuizIndex' = 0

\* the log keeps the body of the latest reply only: of the replies before
\* it, whether they were a reply or a failure
Archive(ps) ==
  [i \in 1..Len(ps) |-> [ps[i] EXCEPT !.outcome.payload = NullPayload]]

\* a send operation of the service is called at await point pc
Send(answered, issued, pc) ==
  LET c == LearningCall(pc, userId, currentModuleNumber, currentStepNumber)
  IN /\ calls' = Append(issued, c)
     /\ posts' = Append(Archive(answered), PostOf(pc, c))

\* loadLearningContent up to its first await
LoadLearningContent(u) ==
  /\ isLoading' = TRUE
  /\ isAssessmentComplete' = "unset"
  /\ LET c == LearningCall("assessment", u, currentModuleNumber, currentStepNumber)
     IN /\ calls' = << c >>
        /\ posts' = Append(CarryOver, PostOf("assessment", c))
  /\ run' = [name |-> "loadLearningContent", pc |-> "assessment", step |-> 0]
  /\ ops' = ops + 1
  /\ UNCHANGED <<assessmentIncomplete, currentModule, currentStep, quizQuestions,
                 quizState, currentModuleNumber, currentStepNumber, dashOnly, notifs,
                   chatMessages, timers>>

\* ngOnInit: auth.user$ delivers a user with a sub
NgOnInitLearner ==
  /\ CanStart
  /\ userId = Undefined
  /\ userId' = DashUser
  /\ LoadLearningContent(DashUser)

\* refreshLearningContent()
RefreshLearningContent ==
  /\ CanStart
  /\ userId # Undefined
  /\ UNCHANGED userId
  /\ LoadLearningContent(userId)

\* forceLoadContent() up to its first await
ForceLoadContent ==
  /\ CanStart
  /\ userId # Undefined
  /\ isLoading' = TRUE
  /\ assessmentIncomplete' = FALSE
  /\ LET c == LearningCall("module", userId, currentModuleNumber, currentStepNumber)
     IN /\ calls' = << c >>
        /\ posts' = Append(CarryOver, PostOf("module", c))
  /\ run' = [name |-> "forceLoadContent", pc |-> "module", step |-> 0]
  /\ ops' = ops + 1
  /\ UNCHANGED <<userId, isAssessmentComplete, currentModule, currentStep,
                 quizQuestions, quizState, currentModuleNumber, currentStepNumber,
                 dashOnly, notifs, chatMessages, timers>>

\* checkAssessmentStatus has returned b: loadLearningContent goes on to
\* loadModuleContent, by its if branch or by its fallback branch
AssessmentStatusKnown(answered, b) ==
  /\ isAssessmentComplete' = b
  /\ assessmentIncomplete' = IF b = "true" THEN FALSE ELSE assessmentIncomplete
  /\ Send(answered, calls, "module")
  /\ run' = [run EXCEPT !.pc = "module"]

Awaiting(i, pc) ==
  /\ run.pc = pc
  /\ i \in inflight
  /\ posts[i].owner = "fg"
  /\ posts[i].tag = pc

\* the reply to the history prompt arrives
AssessmentStep ==
  \E i \in inflight : \E o \in AssessmentOutcomes :
    /\ Awaiting(i, "assessment")
    /\ IF CheckAssessmentStatus(Settle(Pipe(posts[i].req, o))) = "path"
       THEN /\ Send(Answered(i, o), calls, "checkPath")
            /\ run' = [run EXCEPT !.pc = "checkPath"]
            /\ UNCHANGED <<isAssessmentComplete, assessmentIncomplete>>
       ELSE AssessmentStatusKnown(Answered(i, o), "false")
    /\ UNCHANGED <<userId, isLoading, ops, currentModule, currentStep, quizQuestions,
                   quizState, currentModuleNumber, currentStepNumber, dashOnly, notifs,
                   chatMessages, timers>>

\* the reply to get_user_learning_path arrives
CheckPathStep ==
  \E i \in inflight : \E o \in PathOutcomes :
    /\ Awaiting(i, "checkPath")
    /\ LET has == HasLearningPath(Settle(Pipe(posts[i].req, o)))
       IN IF has = "create"
          THEN /\ Send(Answered(i, o), calls, "createPath")
               /\ run' = [run EXCEPT !.pc = "createPath"]
               /\ UNCHANGED <<isAssessmentComplete, assessmentIncomplete>>
          ELSE AssessmentStatusKnown(Answered(i, o), has)
    /\ UNCHANGED <<userId, isLoading, ops, currentModule, currentStep, quizQuestions,
                   quizState, currentModuleNumber, currentStepNumber, dashOnly, notifs,
                   chatMessages, timers>>

\* the reply to create_learning_path arrives
CreatePathStep ==
  \E i \in inflight : \E o \in CreateOutcomes :
    /\ Awaiting(i, "createPath")
    /\ AssessmentStatusKnown(Answered(i, o), PathCreated(Settle(Pipe(posts[i].req, o))))
    /\ UNCHANGED <<userId, isLoading, ops, currentModule, currentStep, quizQuestions,
                   quizState, currentModuleNumber, currentStepNumber, dashOnly, notifs,
                   chatMessages, timers>>

\* after the await of loader pc: the next loader, or the end of the
\* operation; loadLearningContent's fallback branch then tests what was
\* loaded, and nextStep resets the quiz (in QuizStep) and reports in the chat
Continue(answered, pc, st) ==
  LET nxt == AfterLoad(pc, st)
  IN IF nxt = "done"
     THEN /\ posts' = answered
          /\ UNCHANGED calls
          /\ assessmentIncomplete' =
               IF run.name = "loadLearningContent" /\ isAssessmentComplete = "false"
               THEN ~(~currentStep'.isNull /\ ~currentModule'.isNull)
               ELSE assessmentIncomplete
          /\ chatMessages' =
               IF run.name = "nextStep"
               THEN Append(chatMessages, <<"Great job! Moving to step ", currentStepNumber>>)
               ELSE chatMessages
          /\ isLoading' = FALSE
          /\ run' = Idle
     ELSE /\ Send(answered, calls, nxt)
          /\ run' = [run EXCEPT !.pc = nxt]
          /\ UNCHANGED <<assessmentIncomplete, isLoading, chatMessages>>

\* the reply to the module prompt arrives
ModuleContentStep ==
  \E i \in inflight : \E o \in ContentOutcomes("module") :
    /\ Awaiting(i, "module")
    /\ LET st == Settle(Pipe(posts[i].req, o))
       IN /\ currentModule' = LoadModuleContentDone(st, currentModuleNumber)
          /\ UNCHANGED <<currentStep, quizQuestions, quizState>>
          /\ Continue(Answered(i, o), "module", st)
    /\ UNCHANGED <<userId, ops, isAssessmentComplete, currentModuleNumber,
                   currentStepNumber, dashOnly, notifs, timers>>

\* the reply to the lesson step prompt arrives
LessonStepStep ==
  \E i \in inflight : \E o \in ContentOutcomes("step") :
    /\ Awaiting(i, "step")
    /\ LET st == Settle(Pipe(posts[i].req, o))
       IN /\ currentStep' = LoadLessonStepDone(st, currentStepNumber)
          /\ UNCHANGED <<currentModule, quizQuestions, quizState>>
          /\ Continue(Answered(i, o), "step", st)
    /\ UNCHANGED <<userId, ops, isAssessmentComplete, currentModuleNumber,
                   currentStepNumber, dashOnly, notifs, timers>>

\* the reply to the quiz prompt arrives: parseQuizQuestions ends with
\* resetQuizState, and so does nextStep after its last loader
QuizStep ==
  \E i \in inflight : \E o \in ContentOutcomes("quiz") :
    /\ Awaiting(i, "quiz")
    /\ LET st == Settle(Pipe(posts[i].req, o))
       IN /\ quizQuestions' = LoadQuizQuestionsDone(st)
          /\ IF \/ st.state = "resolved"
                \/ (run.name = "nextStep" /\ AfterLoad("quiz", st) = "done")
             THEN ResetQuizState
             ELSE UNCHANGED quizState
          /\ UNCHANGED <<currentModule, currentStep>>
          /\ Continue(Answered(i, o), "quiz", st)
    /\ UNCHANGED <<userId, ops, isAssessmentComplete, currentModuleNumber,
                   currentStepNumber, dashOnly, notifs, timers>>

(***************************************************************************)
(* LearningPage: the quiz and the step navigation                          *)
(***************************************************************************)
NullQuestion == [question |-> "null", options |-> 0, correct |-> "null"]

\* quizQuestions()[currentQuizIndex()] || null
CurrentQuizQuestion ==
  IF currentQuizIndex + 1 \in 1..Len(quizQuestions)
  THEN quizQuestions[currentQuizIndex + 1] ELSE NullQuestion

HasMoreQuestions == currentQuizIndex < Len(quizQuestions) - 1

\* a page on which the learner may always proceed
CanProceedAlways == TRUE

CanProceedToNextStep ==
  LET hasQuiz == Len(quizQuestions) > 0
  IN ~hasQuiz \/ quizCompleted

\* String.fromCharCode(65 + index)
FromCharCode65(index) ==
  CASE index = 0 -> "A" [] index = 1 -> "B" [] index = 2 -> "C" [] index = 3 -> "D"
    [] OTHER -> "?"

\* Math.round((stepNumber / totalSteps) * 100), for totalSteps > 0
ProgressPercentage(stepNumber, totalSteps) ==
  (200 * stepNumber + totalSteps) \div (2 * totalSteps)

\* the save-progress call of nextStep
SaveProgressCall(u, m, s, totalSteps) ==
  Call("sendToProgressAgent", "progressAgent", u,
       Msg("Save progress", u,
           [module |-> m, step |-> s, progress |-> ProgressPercentage(s, totalSteps)]))

\* a handler of the page that sends nothing starts with the log of the
\* previous operation dropped, as an operation does
NoRequest ==
  /\ posts' = CarryOver
  /\ calls' = <<>>

\* a nextStep that goes one step past the last step of a module
NextPositionPastEnd(m, s, totalSteps) ==
  IF s <= totalSteps
  THEN [module |-> m, step |-> s + 1, load |-> "step"]
  ELSE [module |-> m + 1, step |-> 1, load |-> "module"]

\* the position nextStep moves to from step s of module m, and the loader
\* it starts with there
NextPosition(m, s, totalSteps) ==
  IF s < totalSteps
  THEN [module |-> m, step |-> s + 1, load |-> "step"]
  ELSE [module |-> m + 1, step |-> 1, load |-> "module"]

PleaseComplete == <<"Please complete the understanding check to proceed.">>

ErrorProgressing == <<"There was an error progressing to the next step. Please try again.">>

\* nextStep() up to its first await, or to its return
NextStep ==
  /\ run.name = "none"
  /\ IF ~CanProceedToNextStep
     THEN /\ Len(chatMessages) < MaxChat
          /\ chatMessages' = Append(chatMessages, PleaseComplete)
          /\ NoRequest
          /\ UNCHANGED <<run, ops, isLoading>>
     ELSE /\ userId # Undefined
          /\ ~currentStep.isNull
          /\ ops < MaxOps
          /\ currentModuleNumber < MaxModule
          /\ isLoading' = TRUE
          /\ LET c == SaveProgressCall(userId, currentModuleNumber, currentStepNumber,
                                       currentStep.totalSteps)
             IN /\ calls' = << c >>
                /\ posts' = Append(CarryOver, PostOf("save", c))
          /\ run' = [name |-> "nextStep", pc |-> "save", step |-> 0]
          /\ ops' = ops + 1
          /\ UNCHANGED chatMessages
  /\ UNCHANGED <<userId, assessmentIncomplete, isAssessmentComplete, currentModule,
                 currentStep, quizQuestions, quizState, currentModuleNumber,
                 currentStepNumber, dashOnly, notifs, timers>>

\* the reply to the save-progress prompt arrives: nextStep moves to the next
\* step of the module, or to the first step of the next module, and asks for
\* its content
SaveProgressStep ==
  \E i \in inflight : \E o \in PlainOutcomes :
    /\ Awaiting(i, "save")
    /\ IF Settle(Pipe(posts[i].req, o)).state # "resolved"
       THEN /\ posts' = Answered(i, o)
            /\ chatMessages' = Append(chatMessages, ErrorProgressing)
            /\ isLoading' = FALSE
            /\ run' = Idle
            /\ UNCHANGED <<calls, currentModuleNumber, currentStepNumber>>
       ELSE /\ LET nxt == NextPosition(currentModuleNumber, currentStepNumber,
                                      currentStep.totalSteps)
               IN /\ currentModuleNumber' = nxt.module
                  /\ currentStepNumber' = nxt.step
                  /\ run' = [run EXCEPT !.pc = nxt.load]
            /\ LET c == LearningCall(run'.pc, userId, currentModuleNumber',
                                     currentStepNumber')
               IN /\ calls' = Append(calls, c)
                  /\ posts' = Append(Archive(Answered(i, o)), PostOf(run'.pc, c))
            /\ UNCHANGED <<chatMessages, isLoading>>
    /\ UNCHANGED <<userId, ops, assessmentIncomplete, isAssessmentComplete,
                   currentModule, currentStep, quizQuestions, quizState, dashOnly,
                   notifs, timers>>

\* the option buttons clicked, by index: B and C
AnswerIndices == {1, 2}

\* selectAnswer(index); a wrong answer arms the 2 s feedback timer
SelectAnswer ==
  \E index \in AnswerIndices :
    /\ run.name = "none"
    /\ ~showQuizFeedback
    /\ selectedAnswerIndex' = index
    /\ showQuizFeedback' = TRUE
    /\ IF /\ CurrentQuizQuestion # NullQuestion
          /\ FromCharCode65(index) = CurrentQuizQuestion.correct
       THEN /\ quizCompleted' = TRUE
            /\ UNCHANGED timers
       ELSE /\ timers < MaxTimers
            /\ timers' = timers + 1
            /\ UNCHANGED quizCompleted
    /\ NoRequest
    /\ UNCHANGED <<notifs, userId, isLoading, ops, run, dashOnly,
                   assessmentIncomplete, isAssessmentComplete, currentModule,
                   currentStep, quizQuestions, currentQuizIndex, currentModuleNumber,
                   currentStepNumber, chatMessages>>

\* a callback of setTimeout(..., 2000) in selectAnswer runs
FeedbackTimer ==
  /\ timers > 0
  /\ timers' = timers - 1
  /\ quizCompleted' = TRUE
  /\ UNCHANGED <<posts, calls, notifs, userId, isLoading, ops, run, dashOnly,
                 assessmentIncomplete, isAssessmentComplete, currentModule,
                 currentStep, quizQuestions, currentQuizIndex, selectedAnswerIndex,
                 showQuizFeedback, currentModuleNumber, currentStepNumber,
                 chatMessages>>

\* nextQuestion(): the index is advanced and resetQuizState() then runs
NextQuestion ==
  /\ run.name = "none"
  /\ HasMoreQuestions
  /\ ResetQuizState
  /\ NoRequest
  /\ UNCHANGED <<notifs, userId, isLoading, ops, run, dashOnly,
                 assessmentIncomplete, isAssessmentComplete, currentModule,
                 currentStep, quizQuestions, currentModuleNumber, currentStepNumber,
                 chatMessages, timers>>

NextLearning ==
  \/ NgOnInitLearner
  \/ RefreshLearningContent
  \/ ForceLoadContent
  \/ AssessmentStep
  \/ CheckPathStep
  \/ CreatePathStep
  \/ ModuleContentStep
  \/ LessonStepStep
  \/ QuizStep
  \/ NextStep
  \/ SaveProgressStep
  \/ SelectAnswer
  \/ FeedbackTimer
  \/ NextQuestion

SpecLearning == InitLearning /\ [][NextLearning]_vars

(***************************************************************************)
(* Claims about AgentService                                               *)
(***************************************************************************)
\* the request bodies' message text and user id, whichever form is used
BodyMessage(b) ==
  IF "message" \in DOMAIN b THEN b.message
  ELSE IF "newMessage" \in DOMAIN b THEN b.newMessage.text
  ELSE Undefined

BodyUserId(b) ==
  IF "user_id" \in DOMAIN b THEN b.user_id
  ELSE IF "userId" \in DOMAIN b THEN b.userId
  ELSE Undefined

FailedCalls == { i \in 1..Len(posts) : ~posts[i].pending /\ ~posts[i].outcome.ok }

FixedErrorStrings ==
  { "Sorry, I encountered an error. Please try again.",
    "Agent is currently unavailable.",
    "Planning agent is currently unavailable.",
    "Progress tracking is currently unavailable.",
    "Content delivery is currently unavailable." }

\* C1: when the HTTP POST of a send operation fails, the observable does not
\* error: it delivers exactly one value, an AgentResponse with status 'error'
\* and one of the fixed strings as response (the string is the same for
\* every failure), and then completes, so the subscriber's promise resolves.
C1_FailureBecomesErrorResponse ==
  \A i \in FailedCalls :
    LET n == notifs[posts[i].owner] IN
      /\ Len(n) = 2
      /\ n[1].kind = "next"
      /\ n[2].kind = "complete"
      /\ n[1].value.status = "error"
      /\ n[1].value.response.str \in FixedErrorStrings
      /\ \A e \in HttpErrors : Pipe(posts[i].req, HttpFailed(e)) = n
      /\ Settle(n).state = "resolved"

C1_Witness ==
  \E i \in FailedCalls :
    /\ calls[posts[i].owner].op = "sendToAgent"
    /\ notifs[posts[i].owner] # <<>>

\* C2: every request issued by a send operation carries in its body the
\* message text and the user id the caller passed.
C2_BodyCarriesMessageAndUser ==
  \A i \in 1..Len(posts) :
    /\ BodyMessage(posts[i].req.body) = calls[posts[i].owner].message
    /\ BodyUserId(posts[i].req.body) = calls[posts[i].owner].userId

(***************************************************************************)
(* Claims about AgentDashboard                                             *)
(***************************************************************************)
\* the requests of the handoff chain of the operation in progress, in order
FgChain == SelectSeq(posts, LAMBDA p : p.owner = "fg" /\ p.tag = "chain")

\* the text the component receives for an answered request
ReplyText(p) == Settle(Pipe(p.req, p.outcome)).value.response

FgInFlight(tags) ==
  { i \in inflight : posts[i].owner = "fg" /\ posts[i].tag \in tags }

\* C3 as stated: at every moment at most one agent request is in flight.
C3_AtMostOneInFlight == Cardinality(inflight) <= 1

\* C3 amended: an operation of the dashboard issues the requests of its
\* handoff chain, of debugHandoffStatus and its own first request one at a
\* time and never together with its loaders; its loaders run together, each
\* with at most one request in flight, so at most four requests of one
\* operation are in flight.
C3_InFlightPerOperation ==
  /\ Cardinality(FgInFlight({"chain", "debug", "complete"})) <= 1
  /\ (FgInFlight({"chain", "debug", "complete"}) # {} => FgInFlight(LoaderTags) = {})
  /\ \A t \in LoaderTags : Cardinality(FgInFlight({t})) <= 1
  /\ Cardinality(FgInFlight(LoaderTags \cup {"chain", "debug", "complete"})) <= 4

C3_Witness ==
  /\ run.name = "initializeDashboard"
  /\ Cardinality(FgInFlight(LoaderTags)) = 4

ChainTools ==
  << "get_assessment_handoff", "create_learning_path", "prepare_progress_handoff",
     "get_planning_handoff", "prepare_content_handoff" >>

ChainAgents ==
  << "planningAgent", "planningAgent", "planningAgent", "progressAgent", "progressAgent" >>

\* C6: in one run of orchestrateAgentHandoffs the requests are issued in the
\* fixed order get-assessment-handoff, create-learning-path,
\* prepare-progress-handoff (planning agent), get-planning-handoff,
\* prepare-content-handoff (progress agent); a step is issued only after the
\* reply to the step before it arrived, and no step is repeated.
C6_HandoffOrder ==
  LET cs == FgChain IN
    /\ Len(cs) <= 5
    /\ \A k \in 1..Len(cs) :
         /\ BodyMessage(cs[k].req.body).tool = ChainTools[k]
         /\ cs[k].req.agent = ChainAgents[k]
         /\ cs[k].req.url = AgentUrl(ChainAgents[k])
         /\ (k < Len(cs) => ~cs[k].pending)

C6_Witness ==
  /\ Len(FgChain) = 5
  /\ \A k \in 1..5 : ~FgChain[k].pending

\* the loaders whose request failed, in an initializeDashboard in progress
FailedLoaders ==
  { i \in 1..Len(posts) :
      /\ posts[i].owner = "fg"
      /\ posts[i].tag \in LoaderTags
      /\ ~posts[i].pending
      /\ ~posts[i].outcome.ok }

\* C8: while initializeDashboard runs, the signal of every loader whose
\* request failed still holds the value installed by setFallbackData.
C8_FallbackKept ==
  run.name = "initializeDashboard" =>
    \A i \in FailedLoaders :
      CASE posts[i].tag = "stats"      -> dashboardStats = FallbackStats
        [] posts[i].tag = "modules"    -> learningModules = FallbackModules
        [] posts[i].tag = "insights"   -> planningInsights = FallbackInsights
        [] posts[i].tag = "activities" -> agents = FallbackAgents

\* C9: the create-learning-path request is sent only after the assessment
\* handoff was retrieved: the first request was answered, did not fail, and
\* its reply does not say that no handoff was found.
C9_CreateOnlyAfterHandoffRetrieved ==
  LET cs == FgChain IN
    Len(cs) >= 2 =>
      /\ ~cs[1].pending
      /\ cs[1].outcome.ok
      /\ ~Includes(ReplyText(cs[1]), "No assessment handoff found")

ChainMarkers ==
  << "Learning Path Created", "Progress Agent Handoff Prepared", "Learning Path Received" >>

\* C10: if the reply to the assessment-handoff request contains 'No
\* assessment handoff found' the chain sends nothing more; steps 3, 4 and 5
\* are each sent only if the reply to the step before contained its marker
\* ('Learning Path Created', 'Progress Agent Handoff Prepared', 'Learning
\* Path Received').
C10_HandoffGates ==
  LET cs == FgChain IN
    /\ (Len(cs) >= 1 /\ ~cs[1].pending
          /\ Includes(ReplyText(cs[1]), "No assessment handoff found")
        => Len(cs) = 1)
    /\ \A k \in 3..Len(cs) :
         /\ ~cs[k - 1].pending
         /\ Includes(ReplyText(cs[k - 1]), ChainMarkers[k - 2])

C10_Witness ==
  LET cs == FgChain IN
    /\ Len(cs) = 1
    /\ ~cs[1].pending
    /\ Includes(ReplyText(cs[1]), "No assessment handoff found")
    /\ FgInFlight(LoaderTags) # {}

\* C11: every run of initializeDashboard with a user id set comes to its end,
\* with isInitialized true and isLoading false, whether the agents reply,
\* fail or never reply (the 15 s timer fires once armed).
C11_InitializeTerminates ==
  (run.name = "initializeDashboard")
    ~> (run.name # "initializeDashboard" /\ isInitialized /\ ~isLoading)

(***************************************************************************)
(* Claims about LearningPage                                               *)
(***************************************************************************)
\* the requests of the operation in progress (or of the last one), in order
FgLog == SelectSeq(posts, LAMBDA p : p.owner = "fg")

LearningOrder ==
  << "check my assessment history", "get_user_learning_path", "create_learning_path",
     "Get module content", "Get lesson step", "Get quiz questions" >>

LearningAgents ==
  << "assessmentAgent", "planningAgent", "planningAgent", "contentDeliveryAgent",
     "contentDeliveryAgent", "contentDeliveryAgent" >>

\* the place of a request in the order above (0 when it is none of them)
Rank(p) ==
  LET ks == { k \in 1..Len(LearningOrder) :
                /\ BodyMessage(p.req.body).tool = LearningOrder[k]
                /\ p.req.url = AgentUrl(LearningAgents[k]) }
  IN IF ks = {} THEN 0 ELSE CHOOSE k \in ks : TRUE

\* C5: in a run of loadLearningContent the first request is the assessment
\* history one; the planning agent's check follows only it and the create
\* request only the check; module content follows one of these three, the
\* lesson step the module content and the quiz the lesson step; and a request
\* is issued only after the reply to the one before it arrived, so at most
\* one is in flight.
C5_StrictlySequential ==
  run.name = "loadLearningContent" =>
    /\ FgLog # <<>>
    /\ Rank(FgLog[1]) = 1
    /\ Cardinality(inflight) <= 1
    /\ \A i \in 2..Len(FgLog) :
         /\ ~FgLog[i - 1].pending
         /\ CASE Rank(FgLog[i]) = 2 -> Rank(FgLog[i - 1]) = 1
              [] Rank(FgLog[i]) = 3 -> Rank(FgLog[i - 1]) = 2
              [] Rank(FgLog[i]) = 4 -> Rank(FgLog[i - 1]) \in {1, 2, 3}
              [] Rank(FgLog[i]) = 5 -> Rank(FgLog[i - 1]) = 4
              [] Rank(FgLog[i]) = 6 -> Rank(FgLog[i - 1]) = 5
              [] OTHER -> FALSE

\* a run that went through all six requests
C5_Witness ==
  /\ run.name = "loadLearningContent"
  /\ run.pc = "quiz"
  /\ Len(FgLog) = 6

\* C7: when loadLearningContent has finished and checkAssessmentStatus had
\* returned false, assessmentIncomplete is true.
C7_GatedOnAssessment ==
  ( /\ run.name = "none"
    /\ FgLog # <<>>
    /\ FgLog[1].tag = "assessment"
    /\ isAssessmentComplete = "false" )
  => assessmentIncomplete = TRUE

\* the requests in flight in the state a step leads to, by tag
SentNext(tag) ==
  { i \in 1..Len(posts') : posts'[i].pending /\ posts'[i].tag = tag }

\* C12: a call of nextStep while the loaded quiz is non-empty and not
\* completed changes neither the step number nor the module number, sends no
\* save-progress request and appends exactly the message 'Please complete the
\* understanding check to proceed.' to the chat; a call that proceeds (sends
\* the save-progress request) has no quiz questions or a completed quiz.
C12_NextStepGated ==
  [][ NextStep =>
        IF Len(quizQuestions) > 0 /\ ~quizCompleted
        THEN /\ currentStepNumber' = currentStepNumber
             /\ currentModuleNumber' = currentModuleNumber
             /\ SentNext("save") = {}
             /\ run' = run
             /\ chatMessages' = Append(chatMessages, PleaseComplete)
        ELSE /\ (Len(quizQuestions) = 0 \/ quizCompleted)
             /\ SentNext("save") # {}
             /\ chatMessages' = chatMessages
    ]_vars

\* nextStep was refused: the quiz is open and the message is in the chat
C12_Witness ==
  /\ run.name = "none"
  /\ Len(quizQuestions) > 0
  /\ ~quizCompleted
  /\ chatMessages # <<>>
  /\ chatMessages[Len(chatMessages)] = PleaseComplete

\* the requests of a run, in flight in the state a step leads to, that ask
\* for content of another position than (m, st)
ContentElsewhere(m, st) ==
  { i \in 1..Len(posts') :
      /\ posts'[i].pending
      /\ posts'[i].tag \in {"module", "step", "quiz"}
      /\ LET a == BodyMessage(posts'[i].req.body).args
         IN \/ a.module_number # m
            \/ ("step_number" \in DOMAIN a /\ a.step_number # st) }

\* C13: a nextStep that proceeds first sends the save-progress request for
\* the position it is at, alone; when the reply arrives it moves to the next
\* step of the module if currentStepNumber < currentStep.totalSteps and
\* otherwise to step 1 of the next module, and only then asks for content,
\* which is content of the new position; the position does not change again
\* in the run, and when the run ends without error the quiz state is reset.
C13_NextStepAdvances ==
  [][ /\ (run.name = "none" /\ run'.name = "nextStep") =>
            /\ Len(posts') = 1
            /\ posts'[1].pending
            /\ posts'[1].req.agent = "progressAgent"
            /\ BodyMessage(posts'[1].req.body).tool = "Save progress"
            /\ BodyMessage(posts'[1].req.body).args.module = currentModuleNumber
            /\ BodyMessage(posts'[1].req.body).args.step = currentStepNumber
            /\ currentModuleNumber' = currentModuleNumber
            /\ currentStepNumber' = currentStepNumber
      /\ (run.name = "nextStep" /\ run.pc = "save" /\ run'.name = "nextStep"
            /\ run'.pc # "save") =>
            /\ IF currentStepNumber < currentStep.totalSteps
               THEN /\ currentStepNumber' = currentStepNumber + 1
                    /\ currentModuleNumber' = currentModuleNumber
               ELSE /\ currentModuleNumber' = currentModuleNumber + 1
                    /\ currentStepNumber' = 1
            /\ ~posts'[1].pending
      /\ (run.name = "nextStep" /\ run.pc # "save") =>
            /\ currentModuleNumber' = currentModuleNumber
            /\ currentStepNumber' = currentStepNumber
      /\ run'.name = "nextStep" =>
            /\ ContentElsewhere(currentModuleNumber', currentStepNumber') = {}
            /\ Cardinality({ i \in 1..Len(posts') : posts'[i].pending }) = 1
      /\ (run.name = "nextStep" /\ run'.name = "none"
            /\ chatMessages'[Len(chatMessages')] # ErrorProgressing) =>
            /\ ~quizCompleted'
            /\ selectedAnswerIndex' = -1
            /\ ~showQuizFeedback'
            /\ currentQuizIndex' = 0
            /\ ~isLoading'
    ]_vars

\* nextStep has moved from the last step of module 1 to step 1 of module 2
C13_Witness ==
  /\ run.name = "none"
  /\ currentModuleNumber = 2
  /\ currentStepNumber = 1
  /\ chatMessages # <<>>
  /\ chatMessages[Len(chatMessages)] = <<"Great job! Moving to step ", 1>>

\* C14: when hasMoreQuestions is true, nextQuestion leaves currentQuizIndex
\* exactly one greater than before, with selection, feedback and completion
\* cleared.  (When hasMoreQuestions is false it changes nothing: no step.)
C14_NextQuestionAdvances ==
  [][ NextQuestion =>
        /\ currentQuizIndex' = currentQuizIndex + 1
        /\ selectedAnswerIndex' = -1
        /\ ~showQuizFeedback'
        /\ ~quizCompleted'
    ]_vars

\* the answer selected in the state a step leads to is the correct one
AnsweredCorrectly ==
  /\ CurrentQuizQuestion # NullQuestion
  /\ FromCharCode65(selectedAnswerIndex') = CurrentQuizQuestion.correct

\* C15: selectAnswer with the correct answer sets quizCompleted at once; with
\* a wrong answer it leaves quizCompleted false, for the feedback timer to set
\* it later.
C15_SelectAnswerCompletes ==
  [][ SelectAnswer =>
        IF AnsweredCorrectly THEN quizCompleted' ELSE ~quizCompleted'
    ]_vars
=============================================================================
